---- MODULE Spec2Model ----
(***************************************************************************)
(* Model of the stellar-cartography data pipeline:                         *)
(*   - extract_data.js: the ResFile index router and its materializers     *)
(*   - utils/is_valid_sqlite.js: the SQLite header sniffer                 *)
(*   - utils/pickle_to_json.js: the pickle decoder wrapper                 *)
(*   - utils/extract_system_labels.js: the stellar label resolver          *)
(*                                                                         *)
(* Text is modelled as sequences of tokens.  A manifest line is a sequence *)
(* whose tokens are the three characters the index pattern tells apart     *)
(* ("/", ".", ",") and atoms, non-empty runs of other characters.          *)
(***************************************************************************)
EXTENDS Integers, Sequences, FiniteSets, TLC

\* Bounds of the model.
MaxLines == 2
MaxExtra == 1
MaxId == 2

VARIABLES
    \* ---- extract_data.js
    nodeThrows,      \* the runtime's unhandled-rejection mode: TRUE = throw
    proc,            \* "running" | "crashed"
    stream,          \* "open" | "closed"  (the readline interface)
    lines,           \* the manifest lines emitted so far
    processedCount,
    pickleCount,
    tasks,           \* one record per started line handler that matched
    summary,         \* <<>> until rl "close" logs the totals
    \* ---- is_valid_sqlite.js, called on its own
    sniffIn,         \* [err, buf]: the read's outcome
    sniffOut,        \* "unset" | "true" | "false" | "throws"
    \* ---- extract_system_labels.js
    lpc,             \* position in extractStellarLabels
    starMapCache, mainLocalization, enUsLocalization,
    allIds,          \* kind -> set of IDs
    idToMessageId,   \* kind -> set of <<id, messageId>> (a Map)
    labelMaps,       \* kind -> set of <<id, name>> (a Map)
    outFiles,        \* file name -> written content
    exitCode

routerVars == <<nodeThrows, proc, stream, lines, processedCount, pickleCount,
                tasks, summary>>
sniffVars  == <<sniffIn, sniffOut>>
labelVars  == <<lpc, starMapCache, mainLocalization, enUsLocalization, allIds,
                idToMessageId, labelMaps, outFiles, exitCode>>
vars == <<routerVars, sniffVars, labelVars>>

Absent == <<"absent">>

Min(S) == CHOOSE x \in S : \A y \in S : x <= y
Max(S) == CHOOSE x \in S : \A y \in S : x >= y

\* The index pattern of extract_data.js, five groups anchored at both ends:
\*   1 respath   any characters, lazy
\*   2 filename  one or more non-"/", greedy, then a literal "."
\*   3 filetype  one or more non-",", greedy, then a literal ","
\*   4 source    one or more non-"/", a "/", one or more non-","
\*   5 the rest  any characters

\* The first index >= from holding tok, or 0.
FirstIdx(line, from, tok) ==
    LET S == {i \in from..Len(line) : line[i] = tok}
    IN  IF S = {} THEN 0 ELSE Min(S)

\* Groups 3 to 5 matched from index a: each class run is followed by a
\* literal it excludes (or by the end), so each run is the maximal one.
\* Returns <<c, v>> (the comma ending group 3, the end of group 4), or <<>>.
TailMatch(line, a) ==
    LET c == FirstIdx(line, a, ",")
        u == IF c = 0 THEN 0 ELSE FirstIdx(line, c + 1, "/")
        k == IF u = 0 THEN 0 ELSE FirstIdx(line, u + 1, ",")
        v == IF k = 0 THEN Len(line) ELSE k - 1
    IN  IF c > a /\ u > c + 1 /\ v >= u + 1 THEN <<c, v>> ELSE <<>>

\* Group 2 starts after index p and ends at q, the "." is at q+1.
Group2Ends(line, p) ==
    {q \in (p + 1)..(Len(line) - 1) :
        /\ \A i \in (p + 1)..q : line[i] # "/"
        /\ line[q + 1] = "."
        /\ TailMatch(line, q + 2) # <<>>}

\* Group 1 is lazy: the shortest prefix after which the rest matches.
Group1Ends(line) == {p \in 0..Len(line) : Group2Ends(line, p) # {}}

PatternMatches(line) == Group1Ends(line) # {}

\* The pattern with a greedy first group.
RegexMatchGreedyRespath(line) ==
    LET p == Max(Group1Ends(line))
        q == Max(Group2Ends(line, p))
        t == TailMatch(line, q + 2)
    IN  [respath            |-> SubSeq(line, 1, p),
         filename           |-> SubSeq(line, p + 1, q),
         filetype           |-> SubSeq(line, q + 2, t[1] - 1),
         sourceRelativePath |-> SubSeq(line, t[1] + 1, t[2])]

\* line.match(regex): [respath, filename, filetype, sourceRelativePath]
\* Group 1 shortest, then group 2 longest (greedy, backtracking).
RegexMatch(line) ==
    LET p == Min(Group1Ends(line))
        q == Max(Group2Ends(line, p))
        t == TailMatch(line, q + 2)
    IN  [respath            |-> SubSeq(line, 1, p),
         filename           |-> SubSeq(line, p + 1, q),
         filetype           |-> SubSeq(line, q + 2, t[1] - 1),
         sourceRelativePath |-> SubSeq(line, t[1] + 1, t[2])]

----------------------------------------------------------------------------
\* utils/is_valid_sqlite.js

\* "SQLite format 3\0" as character codes.
SqliteHeader == <<83, 81, 76, 105, 116, 101, 32, 102, 111, 114, 109, 97, 116, 32, 51, 0>>
HeaderLen == 16
HighBit == 128
ByteRange == 256

\* Buffer.toString('ascii'): each byte decodes with its highest bit unset.
ToAsciiString(bytes) == [i \in 1..Len(bytes) |-> bytes[i] % HighBit]

\* isValidSQLite on the outcome of fs.readFile: in.err is a read error,
\* in.buf the bytes read.  Every throw is caught and turned into false.
isValidSQLite(in) ==
    IF in.err THEN FALSE
    ELSE IF Len(in.buf) < HeaderLen THEN FALSE
    ELSE ToAsciiString(SubSeq(in.buf, 1, HeaderLen)) = SqliteHeader

\* Buffers for the sniffer: the header, cut at any length or extended with
\* zero bytes, with at most one byte replaced.
Extended == {SqliteHeader \o [i \in 1..n |-> 0] : n \in 0..MaxExtra}

Prefixes == {SubSeq(SqliteHeader, 1, n) : n \in 0..(HeaderLen - 1)}

AlterAt(b, i) ==
    {[b EXCEPT ![i] = v] : v \in {(b[i] + HighBit) % ByteRange, (b[i] + 1) % ByteRange, 0}}

SniffBuffers ==
    LET base == Extended \cup Prefixes
    IN  base \cup UNION {UNION {AlterAt(b, i) : i \in 1..Min({Len(b), HeaderLen})} : b \in base \ {<<>>}}

SniffInputs == {[err |-> TRUE, buf |-> <<>>]} \cup {[err |-> FALSE, buf |-> b] : b \in SniffBuffers}

\* What the sources of static entries may hold when the router sniffs them.
SourceBuffers ==
    { SqliteHeader \o <<0>>,
      [SqliteHeader EXCEPT ![1] = SqliteHeader[1] + HighBit],
      SubSeq(SqliteHeader, 1, HeaderLen - 1) }

SourceReads == {[err |-> TRUE, buf |-> <<>>]} \cup {[err |-> FALSE, buf |-> b] : b \in SourceBuffers}

----------------------------------------------------------------------------
\* extract_data.js: the router

\* The manifest lines the stream may deliver.
ManifestLines ==
    { <<"res:", "/", "ui", "/", "Foo", ".", "static", ",", "ccp", "/", "Foo", ",", "hash">>,
      <<"res:", "|", "Foo", ".", "static", ",", "ccp_resources", "/", "Foo", "|">>,
      <<"res:", "/", "db", "/", "Foo", ".", "static", ",", "ccp", "/", "Bar">>,
      <<"res:", "/", "Types", ".", "schema", ",", "ccp", "/", "Types", ",", "hash">>,
      <<"res:", "/", "Types", ".", "fsdbinary", ",", "ccp", "/", "TypesBin">>,
      <<"res:", "/", "starmapcache", ".", "pickle", ",", "ccp", "/", "Star", ",", "hash">>,
      <<"res:", "/", "ui", "/", "Icon", ".", "png", ",", "ccp", "/", "Icon">>,
      <<"res:", "/", "Foo", ".", "static", ".", "bak", ",", "ccp", "/", "Foo">>,
      <<"Foo", ".", "static", ",", "nodir">> }

\* line.match(regex) for each line of ManifestLines: <<>> for null, else the
\* groups in a one-element sequence.
LineMatch ==
    [line \in ManifestLines |->
        IF PatternMatches(line) THEN <<RegexMatch(line)>> ELSE <<>>]

\* The switch without its "pickle" case.
RoutineOfNoPickleCase(filetype) ==
    IF filetype = <<"static">> THEN "processStaticFile"
    ELSE IF filetype = <<"schema">> THEN "processSchemaFile"
    ELSE IF filetype = <<"fsdbinary">> THEN "processFsdBinaryFile"
    ELSE "defaultCopyFile"

\* The switch on filetype: the routine a matched line is dispatched to.
RoutineOf(filetype) ==
    IF filetype = <<"static">> THEN "processStaticFile"
    ELSE IF filetype = <<"schema">> THEN "processSchemaFile"
    ELSE IF filetype = <<"fsdbinary">> THEN "processFsdBinaryFile"
    ELSE IF filetype = <<"pickle">> THEN "processPickleFile"
    ELSE "defaultCopyFile"

\* String.prototype.replace with a string pattern: the first occurrence only.
ReplaceFirst(s, tok) ==
    LET i == FirstIdx(s, 1, tok)
    IN  IF i = 0 THEN s ELSE SubSeq(s, 1, i - 1) \o SubSeq(s, i + 1, Len(s))

\* Destination paths: the destination directory and the file name under it.
DestPath(dir, sub, filename, ext) ==
    [dir |-> dir, sub |-> sub, name |-> filename \o <<".">> \o ext]

StaticDest(filename) == DestPath("static", <<>>, filename, <<"static">>)
SqliteDest(filename) == DestPath("sqlite", <<>>, filename, <<"sqlite">>)
SchemaDest(filename) == DestPath("schema", <<>>, filename, <<"schema">>)
FsdBinaryDest(filename) == DestPath("fsdbinary/src", <<>>, filename, <<"fsdbinary">>)
PickleDest(filename) == DestPath("pickle", <<>>, filename, <<"pickle">>)
JsonDest(filename) == DestPath("json", <<>>, filename, <<"json">>)
RawDest(respath, filename, filetype) ==
    DestPath("raw", ReplaceFirst(respath, "res:"), filename, filetype)

\* The destination of a routine's first copyFile.
FirstDest(m) ==
    LET r == RoutineOf(m.filetype)
    IN  IF r = "processStaticFile" THEN StaticDest(m.filename)
        ELSE IF r = "processSchemaFile" THEN SchemaDest(m.filename)
        ELSE IF r = "processFsdBinaryFile" THEN FsdBinaryDest(m.filename)
        ELSE IF r = "processPickleFile" THEN PickleDest(m.filename)
        ELSE RawDest(m.respath, m.filename, m.filetype)

\* A handler started for a matched line; pc is where its promise chain is,
\* sourceRead what isValidSQLite's readFile of the source gave (meaningful
\* once isValid is set).
NewTask(n, m, fsOk) ==
    [line     |-> n,
     m        |-> m,
     routine  |-> RoutineOf(m.filetype),
     pc       |-> IF fsOk THEN "copy" ELSE "rejected",
     writes   |-> {},
     sourceRead |-> [err |-> TRUE, buf |-> <<>>],
     isValid  |-> "unset",
     decoded  |-> FALSE,
     error    |-> IF fsOk THEN "none" ELSE "mkdir",
     rethrown |-> FALSE,
     caught   |-> FALSE]

Alive == proc = "running"

RouterInit ==
    /\ nodeThrows \in BOOLEAN
    /\ proc = "running"
    /\ stream = "open"
    /\ lines = <<>>
    /\ processedCount = 0
    /\ pickleCount = 0
    /\ tasks = <<>>
    /\ summary = <<>>

\* The increment placed outside the case.
PickleCountAfterEveryCase(m) == pickleCount + 1

\* case "pickle": pickleCount++
PickleCountAfter(m) ==
    IF m.filetype = <<"pickle">> THEN pickleCount + 1 ELSE pickleCount

\* rl.on("line"): the handler up to its first await.  fsOk is the outcome of
\* defaultCopyFile's existsSync/mkdirSync, the only filesystem call made
\* before the first copyFile is started.
ReadLine(line, fsOk) ==
    /\ Alive /\ stream = "open" /\ Len(lines) < MaxLines
    /\ lines' = Append(lines, line)
    /\ IF LineMatch[line] = <<>>
       THEN /\ fsOk
            /\ UNCHANGED <<processedCount, pickleCount, tasks>>
       ELSE LET m == LineMatch[line][1]
                r == RoutineOf(m.filetype)
            IN  /\ fsOk \/ r = "defaultCopyFile"
                /\ processedCount' = processedCount + 1
                /\ pickleCount' = PickleCountAfter(m)
                /\ tasks' = Append(tasks, NewTask(Len(lines) + 1, m, fsOk))
    /\ UNCHANGED <<nodeThrows, proc, stream, summary>>
    /\ UNCHANGED <<sniffVars, labelVars>>

\* What a routine does when an awaited call rejects: processPickleFile's
\* try/catch logs and returns, every other routine lets it propagate.
OnFailure(t, err) ==
    IF t.routine = "processPickleFile"
    THEN [t EXCEPT !.pc = "done", !.error = err, !.caught = TRUE]
    ELSE [t EXCEPT !.pc = "rejected", !.error = err]

\* The first copyFile of a routine settles.
AfterFirstCopy(t, ok) ==
    IF ~ok THEN OnFailure(t, "copy")
    ELSE [t EXCEPT !.writes = @ \cup {FirstDest(t.m)},
                   !.pc = IF t.routine = "processStaticFile" THEN "sniff"
                          ELSE IF t.routine = "processPickleFile" THEN "read"
                          ELSE "done"]

CopyDone(i, ok) ==
    /\ Alive /\ i \in DOMAIN tasks /\ tasks[i].pc = "copy"
    /\ tasks' = [tasks EXCEPT ![i] = AfterFirstCopy(tasks[i], ok)]
    /\ UNCHANGED <<nodeThrows, proc, stream, lines, processedCount, pickleCount, summary>>
    /\ UNCHANGED <<sniffVars, labelVars>>

\* The second copy started whatever isValidSQLite returned.
AfterSniffCopiesAlways(t, in) ==
    [t EXCEPT !.sourceRead = in,
              !.isValid = IF isValidSQLite(in) THEN "true" ELSE "false",
              !.pc = "copySqlite"]

\* processStaticFile after isValidSQLite(sourceFilePath) resolves.
AfterSniff(t, in) ==
    IF isValidSQLite(in)
    THEN [t EXCEPT !.sourceRead = in, !.isValid = "true", !.pc = "copySqlite"]
    ELSE [t EXCEPT !.sourceRead = in, !.isValid = "false", !.pc = "done"]

SniffDone(i, in) ==
    /\ Alive /\ i \in DOMAIN tasks /\ tasks[i].pc = "sniff"
    /\ tasks' = [tasks EXCEPT ![i] = AfterSniff(tasks[i], in)]
    /\ UNCHANGED <<nodeThrows, proc, stream, lines, processedCount, pickleCount, summary>>
    /\ UNCHANGED <<sniffVars, labelVars>>

\* processStaticFile's second copyFile settles.
AfterSqliteCopy(t, ok) ==
    IF ~ok THEN OnFailure(t, "copy")
    ELSE [t EXCEPT !.writes = @ \cup {SqliteDest(t.m.filename)}, !.pc = "done"]

SqliteCopyDone(i, ok) ==
    /\ Alive /\ i \in DOMAIN tasks /\ tasks[i].pc = "copySqlite"
    /\ tasks' = [tasks EXCEPT ![i] = AfterSqliteCopy(tasks[i], ok)]
    /\ UNCHANGED <<nodeThrows, proc, stream, lines, processedCount, pickleCount, summary>>
    /\ UNCHANGED <<sniffVars, labelVars>>

\* A catch that logs the error and does not throw it again.
ConvertFailureSwallowed(t, err) == [t EXCEPT !.error = err]

\* utils/pickle_to_json.js: convertPickleToJson's catch logs the error and
\* throws it again to its caller.
ConvertFailure(t, err) == [t EXCEPT !.error = err, !.rethrown = TRUE]

\* processPickleFile after its await of convertPickleToJson settles.
AfterConvert(t) ==
    IF t.rethrown THEN OnFailure(t, t.error) ELSE [t EXCEPT !.pc = "done"]

\* convertPickleToJson: fs.readFile of the copy settles, then parser.parse and
\* JSON.stringify run and fs.writeFile is started.
AfterPickleRead(t, outcome) ==
    IF outcome = "ok" THEN [t EXCEPT !.decoded = TRUE, !.pc = "writeJson"]
    ELSE AfterConvert(ConvertFailure(t, outcome))

PickleReadDone(i, outcome) ==
    /\ Alive /\ i \in DOMAIN tasks /\ tasks[i].pc = "read"
    /\ tasks' = [tasks EXCEPT ![i] = AfterPickleRead(tasks[i], outcome)]
    /\ UNCHANGED <<nodeThrows, proc, stream, lines, processedCount, pickleCount, summary>>
    /\ UNCHANGED <<sniffVars, labelVars>>

\* convertPickleToJson: fs.writeFile of the JSON settles.
AfterJsonWrite(t, ok) ==
    IF ok THEN AfterConvert([t EXCEPT !.writes = @ \cup {JsonDest(t.m.filename)}])
    ELSE AfterConvert(ConvertFailure(t, "write"))

JsonWriteDone(i, ok) ==
    /\ Alive /\ i \in DOMAIN tasks /\ tasks[i].pc = "writeJson"
    /\ tasks' = [tasks EXCEPT ![i] = AfterJsonWrite(tasks[i], ok)]
    /\ UNCHANGED <<nodeThrows, proc, stream, lines, processedCount, pickleCount, summary>>
    /\ UNCHANGED <<sniffVars, labelVars>>

\* The promise an async "line" listener returns is not awaited by the
\* emitter: its rejection is an unhandled rejection.  The runtime either
\* throws it as an uncaught exception, which ends the process ...
RejectionCrash(i) ==
    /\ Alive /\ nodeThrows /\ i \in DOMAIN tasks /\ tasks[i].pc = "rejected"
    /\ proc' = "crashed"
    /\ tasks' = [tasks EXCEPT ![i].pc = "reported"]
    /\ UNCHANGED <<nodeThrows, stream, lines, processedCount, pickleCount, summary>>
    /\ UNCHANGED <<sniffVars, labelVars>>

\* ... or prints a warning and goes on.
RejectionWarn(i) ==
    /\ Alive /\ ~nodeThrows /\ i \in DOMAIN tasks /\ tasks[i].pc = "rejected"
    /\ tasks' = [tasks EXCEPT ![i].pc = "reported"]
    /\ UNCHANGED <<nodeThrows, proc, stream, lines, processedCount, pickleCount, summary>>
    /\ UNCHANGED <<sniffVars, labelVars>>

\* rl.on("close"): the input has ended; the totals are logged.
Close ==
    /\ Alive /\ stream = "open"
    /\ stream' = "closed"
    /\ summary' = <<[processed |-> processedCount, pickles |-> pickleCount]>>
    /\ UNCHANGED <<nodeThrows, proc, lines, processedCount, pickleCount, tasks>>
    /\ UNCHANGED <<sniffVars, labelVars>>

SniffIdle == sniffIn = [err |-> TRUE, buf |-> <<>>] /\ sniffOut = "unset"

LabelsIdle ==
    /\ lpc = "idle"
    /\ starMapCache = Absent /\ mainLocalization = Absent /\ enUsLocalization = Absent
    /\ allIds = Absent /\ idToMessageId = Absent /\ labelMaps = Absent
    /\ outFiles = <<>> /\ exitCode = Absent

RouterIdle ==
    /\ nodeThrows = FALSE /\ proc = "idle" /\ stream = "idle" /\ lines = <<>>
    /\ processedCount = 0 /\ pickleCount = 0 /\ tasks = <<>> /\ summary = <<>>

Init == RouterInit /\ SniffIdle /\ LabelsIdle

Next ==
    \/ \E line \in ManifestLines, fsOk \in BOOLEAN : ReadLine(line, fsOk)
    \/ \E i \in 1..MaxLines, ok \in BOOLEAN : CopyDone(i, ok)
    \/ \E i \in 1..MaxLines, in \in SourceReads : SniffDone(i, in)
    \/ \E i \in 1..MaxLines, ok \in BOOLEAN : SqliteCopyDone(i, ok)
    \/ \E i \in 1..MaxLines, outcome \in {"ok", "read", "decode"} : PickleReadDone(i, outcome)
    \/ \E i \in 1..MaxLines, ok \in BOOLEAN : JsonWriteDone(i, ok)
    \/ \E i \in 1..MaxLines : RejectionCrash(i)
    \/ \E i \in 1..MaxLines : RejectionWarn(i)
    \/ Close

Spec == Init /\ [][Next]_vars

----------------------------------------------------------------------------
\* utils/is_valid_sqlite.js run on its own

SniffInit == sniffIn \in SniffInputs /\ sniffOut = "unset"

Sniff ==
    /\ sniffOut = "unset"
    /\ sniffOut' = IF isValidSQLite(sniffIn) THEN "true" ELSE "false"
    /\ UNCHANGED <<sniffIn, routerVars, labelVars>>

InitSniff == SniffInit /\ RouterIdle /\ LabelsIdle

SpecSniff == InitSniff /\ [][Sniff]_vars

----------------------------------------------------------------------------
\* utils/extract_system_labels.js

Kinds == {"systems", "constellations", "regions"}

FullPathOf(k) ==
    CASE k = "systems"        -> "Map/SolarSystems"
      [] k = "constellations" -> "Map/Constellations"
      [] k = "regions"        -> "Map/Regions"

PrefixOf(k) ==
    CASE k = "systems"        -> "solar_system_"
      [] k = "constellations" -> "constellation_"
      [] k = "regions"        -> "region_"

\* Decimal digits as characters; parseInt on a run of digits.
Digits == <<"0", "1", "2", "3", "4", "5", "6", "7", "8", "9">>
Radix == 10

IsDigit(c) == \E d \in DOMAIN Digits : Digits[d] = c

DigitVal(c) == (CHOOSE d \in DOMAIN Digits : Digits[d] = c) - 1

RECURSIVE ParseInt(_)
ParseInt(ds) ==
    IF ds = <<>> THEN 0
    ELSE Radix * ParseInt(SubSeq(ds, 1, Len(ds) - 1)) + DigitVal(ds[Len(ds)])

\* The key a JSON object holds for the number i (i < 10 in this model).
Key(i) == <<Digits[i + 1]>>

\* An optional property of a parsed JSON object.
NoList == [has |-> FALSE, v |-> <<>>]
NoMap == [has |-> FALSE, v |-> {}]
Some(x) == [has |-> TRUE, v |-> x]

Elements(list) == {list[i] : i \in DOMAIN list}

\* label.match(/<prefix>(\d+)/): the leftmost place where the prefix is
\* followed by a digit, and the longest run of digits there; <<>> if none.
LabelDigits(label, k) ==
    LET starts == {i \in 1..(Len(label) - 1) :
                      label[i] = PrefixOf(k) /\ IsDigit(label[i + 1])}
    IN  IF starts = {} THEN <<>>
        ELSE LET i == Min(starts)
                 j == Max({e \in (i + 1)..Len(label) :
                             \A x \in (i + 1)..e : IsDigit(label[x])})
             IN  SubSeq(label, i + 1, j)

\* ---- pass 1: the ID sets (lines 41-78)
DiscoverRegionIds(c) ==
    IF ~c.regions.has THEN {}
    ELSE {ParseInt(r.key) : r \in c.regions.v}

\* The constellation set filled from the constellation keys alone.
DiscoverConstellationIdsKeysOnly(c) ==
    IF ~c.constellations.has THEN {}
    ELSE {ParseInt(r.key) : r \in c.constellations.v}

DiscoverConstellationIds(c) ==
    (IF ~c.regions.has THEN {}
     ELSE UNION {IF r.constellationIDs.has THEN Elements(r.constellationIDs.v) ELSE {} :
                   r \in c.regions.v})
    \cup
    (IF ~c.constellations.has THEN {}
     ELSE {ParseInt(r.key) : r \in c.constellations.v})

DiscoverSystemIds(c) ==
    (IF ~c.regions.has THEN {}
     ELSE UNION {IF r.solarSystemIDs.has THEN Elements(r.solarSystemIDs.v) ELSE {} :
                   r \in c.regions.v})
    \cup
    (IF ~c.constellations.has THEN {}
     ELSE UNION {IF r.solarSystemIDs.has THEN Elements(r.solarSystemIDs.v) ELSE {} :
                   r \in c.constellations.v})
    \cup
    (IF ~c.solarSystems.has THEN {}
     ELSE {ParseInt(key) : key \in c.solarSystems.v})

DiscoverIds(c) ==
    [k \in Kinds |->
        CASE k = "systems"        -> DiscoverSystemIds(c)
          [] k = "constellations" -> DiscoverConstellationIds(c)
          [] k = "regions"        -> DiscoverRegionIds(c)]

\* ---- pass 2: ID -> messageId (lines 86-123)
MapSet(map, key, val) == {p \in map : p[1] # key} \cup {<<key, val>>}

EmptyMaps == [k \in Kinds |-> {}]

\* The body of the forEach for one [messageId, entry] of labels.
IndexEntry(idx, ids, e) ==
    LET ks == {k \in Kinds : e.FullPath = FullPathOf(k) /\ e.label # <<>>}
    IN  IF ks = {} THEN idx
        ELSE LET k  == CHOOSE x \in ks : TRUE
                 ds == LabelDigits(e.label, k)
             IN  IF ds # <<>> /\ ParseInt(ds) \in ids[k]
                 THEN [idx EXCEPT ![k] = MapSet(@, ParseInt(ds), ParseInt(e.messageId))]
                 ELSE idx

\* Object.entries visits integer keys in ascending numeric order.
RECURSIVE IndexAll(_, _, _)
IndexAll(idx, ids, entries) ==
    IF entries = {} THEN idx
    ELSE LET e == CHOOSE x \in entries :
                     \A y \in entries : ParseInt(x.messageId) <= ParseInt(y.messageId)
         IN  IndexAll(IndexEntry(idx, ids, e), ids, entries \ {e})

BuildIndex(main, ids) ==
    IF ~main.labels.has THEN EmptyMaps ELSE IndexAll(EmptyMaps, ids, main.labels.v)

\* ---- pass 3: ID -> name (lines 131-176)
Null == [t |-> "null", s |-> ""]
Str(x) == [t |-> "str", s |-> x]

\* JavaScript truthiness of a scalar of the string table.
Truthy(v) == v.t = "str" /\ v.s # ""

\* localizationData[messageId], with the guards of lines 141-145.
HasName(data, mid) ==
    \E r \in data : /\ r.messageId = mid
                    /\ r.isArray /\ Len(r.elems) > 0
                    /\ Truthy(r.elems[1]) /\ r.elems[1] # Null

NameOf(data, mid) ==
    (CHOOSE r \in data : r.messageId = mid).elems[1].s

\* The string table indexed by the object ID instead of the messageId.
ResolveKindById(map, data) ==
    {<<p[1], NameOf(data, p[1])>> : p \in {q \in map : HasName(data, q[1])}}

ResolveKind(map, data) ==
    {<<p[1], NameOf(data, p[2])>> : p \in {q \in map : HasName(data, q[2])}}

ResolveAll(idx, data) == [k \in Kinds |-> ResolveKind(idx[k], data)]

\* ---- the catalogs the three files may hold
Region(i, ss, cs) == [key |-> Key(i), solarSystemIDs |-> ss, constellationIDs |-> cs]
Constellation(i, ss) == [key |-> Key(i), solarSystemIDs |-> ss]

EmptyCache == [regions |-> NoMap, constellations |-> NoMap, solarSystems |-> NoMap]

StarMapCaches ==
    { EmptyCache,
      [regions        |-> Some({Region(1, Some(<<1, 1>>), Some(<<MaxId>>))}),
       constellations |-> NoMap,
       solarSystems   |-> NoMap],
      [regions        |-> Some({Region(i, NoList, NoList) : i \in 1..MaxId}),
       constellations |-> Some({Constellation(1, Some(<<MaxId>>))}),
       solarSystems   |-> NoMap],
      [regions        |-> NoMap,
       constellations |-> Some({Constellation(MaxId, NoList)}),
       solarSystems   |-> Some({Key(i) : i \in 1..MaxId})] }

MessageKeys == {Key(1), Key(2)}

LabelChoices ==
    {<<PrefixOf(k), "1">> : k \in Kinds}
    \cup { <<>>,
           <<"solar_system_", "0", "1">>,
           <<"solar_system_", "1", "x">>,
           <<"x", "solar_system_", "2">>,
           <<"solar_system_", "x">> }

FullPaths == {FullPathOf(k) : k \in Kinds} \cup {"Map/Other"}

LabelEntries(key) ==
    {[messageId |-> key, FullPath |-> fp, label |-> l] : fp \in FullPaths, l \in LabelChoices}

MainLocalizations ==
    {[labels |-> NoMap]}
    \cup {[labels |-> Some({e1, e2})] : e1 \in LabelEntries(Key(1)), e2 \in LabelEntries(Key(2))}

\* enUsLocalization[1]: the entries present in the string table.
StringEntry(mid, isArray, elems) == [messageId |-> mid, isArray |-> isArray, elems |-> elems]

FirstEntries ==
    { {}, {StringEntry(1, TRUE, <<>>)}, {StringEntry(1, FALSE, <<>>)},
      {StringEntry(1, TRUE, <<Null>>)}, {StringEntry(1, TRUE, <<Str("")>>)},
      {StringEntry(1, TRUE, <<Str("Jita"), Null>>)} }

SecondEntries ==
    { {}, {StringEntry(2, TRUE, <<Null>>)}, {StringEntry(2, TRUE, <<Str("Amarr")>>)} }

StringTables == {a \cup b : a \in FirstEntries, b \in SecondEntries}

\* What fs.readFileSync and JSON.parse make of a file: ok is FALSE when the
\* file is missing or does not parse.
Files(contents, none) ==
    {[ok |-> FALSE, v |-> none]} \cup {[ok |-> TRUE, v |-> c] : c \in contents}

\* A catch that logs the error and returns.
loadJsonFileNoExit(f) == [exit |-> FALSE, value |-> f.v]

\* loadJsonFile: the catch logs the error and calls process.exit(1).
loadJsonFile(f) == [exit |-> ~f.ok, value |-> f.v]

Unloaded(none) == [state |-> "unloaded", v |-> none]

Loaded(f) == [state |-> IF f.ok THEN "ok" ELSE "failed", v |-> loadJsonFile(f).value]

LabelsInit ==
    /\ lpc = "loadStar"
    /\ starMapCache = Unloaded(EmptyCache)
    /\ mainLocalization = Unloaded([labels |-> NoMap])
    /\ enUsLocalization = Unloaded({})
    /\ allIds = EmptyMaps
    /\ idToMessageId = EmptyMaps
    /\ labelMaps = EmptyMaps
    /\ outFiles = [n \in {} |-> {}]
    /\ exitCode = <<>>

\* After a loadJsonFile call: go on, or the process has exited with code 1.
AfterLoad(f, next) ==
    IF loadJsonFile(f).exit
    THEN lpc' = "exit" /\ exitCode' = <<1>>
    ELSE lpc' = next /\ UNCHANGED exitCode

LoadStar ==
    /\ lpc = "loadStar"
    /\ \E f \in Files(StarMapCaches, EmptyCache) :
          /\ starMapCache' = Loaded(f)
          /\ AfterLoad(f, "loadMain")
    /\ UNCHANGED <<mainLocalization, enUsLocalization, allIds, idToMessageId, labelMaps, outFiles>>
    /\ UNCHANGED <<routerVars, sniffVars>>

LoadMain ==
    /\ lpc = "loadMain"
    /\ \E f \in Files(MainLocalizations, [labels |-> NoMap]) :
          /\ mainLocalization' = Loaded(f)
          /\ AfterLoad(f, "loadEn")
    /\ UNCHANGED <<starMapCache, enUsLocalization, allIds, idToMessageId, labelMaps, outFiles>>
    /\ UNCHANGED <<routerVars, sniffVars>>

LoadEn ==
    /\ lpc = "loadEn"
    /\ \E f \in Files(StringTables, {}) :
          /\ enUsLocalization' = Loaded(f)
          /\ AfterLoad(f, "discover")
    /\ UNCHANGED <<starMapCache, mainLocalization, allIds, idToMessageId, labelMaps, outFiles>>
    /\ UNCHANGED <<routerVars, sniffVars>>

Discover ==
    /\ lpc = "discover"
    /\ allIds' = DiscoverIds(starMapCache.v)
    /\ lpc' = "index"
    /\ UNCHANGED <<starMapCache, mainLocalization, enUsLocalization, idToMessageId,
                   labelMaps, outFiles, exitCode>>
    /\ UNCHANGED <<routerVars, sniffVars>>

Index ==
    /\ lpc = "index"
    /\ idToMessageId' = BuildIndex(mainLocalization.v, allIds)
    /\ lpc' = "resolve"
    /\ UNCHANGED <<starMapCache, mainLocalization, enUsLocalization, allIds,
                   labelMaps, outFiles, exitCode>>
    /\ UNCHANGED <<routerVars, sniffVars>>

Resolve ==
    /\ lpc = "resolve"
    /\ labelMaps' = ResolveAll(idToMessageId, enUsLocalization.v)
    /\ lpc' = "write"
    /\ UNCHANGED <<starMapCache, mainLocalization, enUsLocalization, allIds,
                   idToMessageId, outFiles, exitCode>>
    /\ UNCHANGED <<routerVars, sniffVars>>

\* The four writeFileSync calls (lines 182-220).
OutputFiles(maps) ==
    [n \in {"system_labels.json", "constellation_labels.json", "region_labels.json",
            "stellar_labels.json"} |->
        CASE n = "system_labels.json"        -> maps["systems"]
          [] n = "constellation_labels.json" -> maps["constellations"]
          [] n = "region_labels.json"        -> maps["regions"]
          [] n = "stellar_labels.json"       -> maps]

WriteLabels ==
    /\ lpc = "write"
    /\ outFiles' = OutputFiles(labelMaps)
    /\ lpc' = "done"
    /\ exitCode' = <<0>>
    /\ UNCHANGED <<starMapCache, mainLocalization, enUsLocalization, allIds,
                   idToMessageId, labelMaps>>
    /\ UNCHANGED <<routerVars, sniffVars>>

NextLabels ==
    \/ LoadStar
    \/ LoadMain
    \/ LoadEn
    \/ Discover
    \/ Index
    \/ Resolve
    \/ WriteLabels

InitLabels == LabelsInit /\ RouterIdle /\ SniffIdle

SpecLabels == InitLabels /\ [][NextLabels]_vars

----------------------------------------------------------------------------
\* utils/extract_system_labels.js: the ID discovery pass on its own, started
\* where extractStellarLabels is once its three loads have returned.

\* What a solarSystemIDs or constellationIDs property may hold.
IdLists ==
    { NoList, Some(<<>>), Some(<<1>>), Some(<<MaxId>>), Some(<<1, 1>>),
      Some(<<1, MaxId>>) }

RegionMaps ==
    {NoMap, Some({})}
    \cup {Some({Region(1, ss, cs)}) : ss \in IdLists, cs \in IdLists}
    \cup {Some({Region(1, NoList, cs), Region(MaxId, Some(<<MaxId>>), Some(<<1>>))}) :
             cs \in IdLists}

ConstellationMaps ==
    {NoMap, Some({})}
    \cup {Some({Constellation(1, ss)}) : ss \in IdLists}
    \cup {Some({Constellation(1, NoList), Constellation(MaxId, Some(<<MaxId>>))})}

SolarSystemMaps ==
    {NoMap, Some({}), Some({Key(1)}), Some({Key(i) : i \in 1..MaxId})}

DiscoverCaches ==
    {[regions |-> r, constellations |-> c, solarSystems |-> s] :
        r \in RegionMaps, c \in ConstellationMaps, s \in SolarSystemMaps}

DiscoverInit ==
    /\ lpc = "discover"
    /\ \E c \in DiscoverCaches : starMapCache = Loaded([ok |-> TRUE, v |-> c])
    /\ mainLocalization = Loaded([ok |-> TRUE, v |-> [labels |-> NoMap]])
    /\ enUsLocalization = Loaded([ok |-> TRUE, v |-> {}])
    /\ allIds = EmptyMaps
    /\ idToMessageId = EmptyMaps
    /\ labelMaps = EmptyMaps
    /\ outFiles = [n \in {} |-> {}]
    /\ exitCode = <<>>

InitDiscover == DiscoverInit /\ RouterIdle /\ SniffIdle

SpecDiscover == InitDiscover /\ [][Discover]_vars

----------------------------------------------------------------------------
\* Properties of the router

MatchedLines == {n \in 1..Len(lines) : LineMatch[lines[n]] # <<>>}

TasksOfLine(n) == {i \in DOMAIN tasks : tasks[i].line = n}

\* C1: every line read that matches the pattern has exactly one handler
\* started, running the one routine its filetype selects by exact match
\* (static, schema, fsdbinary, pickle, anything else the default copy); a
\* line that does not match has none.
C1_OneRoutinePerMatchedLine ==
    \A n \in 1..Len(lines) :
        IF LineMatch[lines[n]] # <<>>
        THEN /\ Cardinality(TasksOfLine(n)) = 1
             /\ \A i \in TasksOfLine(n) :
                  LET ft == tasks[i].m.filetype
                  IN  /\ tasks[i].m = LineMatch[lines[n]][1]
                      /\ tasks[i].routine =
                           CASE ft = <<"static">>    -> "processStaticFile"
                             [] ft = <<"schema">>    -> "processSchemaFile"
                             [] ft = <<"fsdbinary">> -> "processFsdBinaryFile"
                             [] ft = <<"pickle">>    -> "processPickleFile"
                             [] OTHER                -> "defaultCopyFile"
        ELSE TasksOfLine(n) = {}

C1_Witness ==
    /\ Len(lines) = 2 /\ Len(tasks) = 1
    /\ LineMatch[lines[1]] = <<>>
    /\ tasks[1].line = 2 /\ tasks[1].routine = "processPickleFile"

\* C2: a failure while materializing one entry, of whatever category, never
\* aborts the run: the process is still running and goes on reading.
C2_FailureContained ==
    \A i \in DOMAIN tasks : tasks[i].error # "none" => proc = "running"

\* C5: a static entry is first copied to static/{filename}.static; the copy
\* to sqlite/{filename}.sqlite is made only if isValidSQLite reported a
\* match, never when it reported none, and once the routine has returned the
\* sqlite copy exists exactly when a match was reported.
C5_StaticAndSqliteCopies ==
    \A i \in DOMAIN tasks :
        LET t == tasks[i]
            static == [dir |-> "static", sub |-> <<>>,
                       name |-> t.m.filename \o <<".", "static">>]
            sqlite == [dir |-> "sqlite", sub |-> <<>>,
                       name |-> t.m.filename \o <<".", "sqlite">>]
        IN  t.routine = "processStaticFile" =>
              /\ t.pc \in {"sniff", "copySqlite", "done"} => static \in t.writes
              /\ t.isValid # "unset" => static \in t.writes
              /\ sqlite \in t.writes => t.isValid = "true"
              /\ t.isValid = "false" => sqlite \notin t.writes /\ t.pc = "done"
              /\ t.pc = "done" => (sqlite \in t.writes <=> t.isValid = "true")

C5_Witness ==
    /\ Len(tasks) = 2
    /\ tasks[1].routine = "processStaticFile" /\ tasks[1].pc = "done"
    /\ tasks[1].isValid = "true" /\ Cardinality(tasks[1].writes) = 2
    /\ tasks[2].routine = "processStaticFile" /\ tasks[2].pc = "done"
    /\ tasks[2].isValid = "false" /\ Cardinality(tasks[2].writes) = 1

\* C6: for a pickle entry the decoder runs only once the copy to
\* pickle/{filename}.pickle is in place; a decode failure is thrown again by
\* convertPickleToJson, caught by processPickleFile, leaves no
\* json/{filename}.json and keeps the pickle copy, and the handler's promise
\* never rejects, so the run goes on.
C6_PickleDecodeFailure ==
    \A i \in DOMAIN tasks :
        LET t == tasks[i]
            pickle == [dir |-> "pickle", sub |-> <<>>,
                       name |-> t.m.filename \o <<".", "pickle">>]
            json == [dir |-> "json", sub |-> <<>>,
                     name |-> t.m.filename \o <<".", "json">>]
        IN  t.routine = "processPickleFile" =>
              /\ (t.pc \in {"read", "writeJson"} \/ t.decoded
                    \/ t.error \in {"read", "decode", "write"}) => pickle \in t.writes
              /\ json \in t.writes => t.decoded
              /\ t.error = "decode" =>
                    /\ t.rethrown /\ t.caught /\ t.pc = "done"
                    /\ json \notin t.writes /\ pickle \in t.writes
              /\ t.pc \notin {"rejected", "reported"}

C6_Witness ==
    /\ proc = "running" /\ stream = "open" /\ Len(tasks) = 1
    /\ tasks[1].routine = "processPickleFile"
    /\ tasks[1].error = "decode" /\ tasks[1].pc = "done"

\* C7: the counters are exact at every moment (a line that does not match
\* changes neither), the summary is logged when the stream closes, and it
\* reports the number of matched lines read and the number of those whose
\* filetype is pickle, whatever happened to the entries.
C7_SummaryCountsExact ==
    /\ processedCount = Cardinality(MatchedLines)
    /\ pickleCount = Cardinality({n \in MatchedLines :
                                    LineMatch[lines[n]][1].filetype = <<"pickle">>})
    /\ stream = "closed" <=> summary # <<>>
    /\ summary # <<>> =>
          /\ summary[1].processed = processedCount
          /\ summary[1].pickles = pickleCount

C7_Witness ==
    /\ summary # <<>> /\ Len(lines) = 2 /\ Len(tasks) = 1
    /\ LineMatch[lines[1]] = <<>>
    /\ tasks[1].routine = "processPickleFile" /\ tasks[1].error # "none"
    /\ summary[1] = [processed |-> 1, pickles |-> 1]

----------------------------------------------------------------------------
\* Properties of the sniffer

\* C8: isValidSQLite returns true exactly when the buffer has at least 16
\* bytes and its first 16 bytes equal the signature byte for byte; it returns
\* false for every other buffer and for a read error, and never throws.
C8_ExactSignature ==
    sniffOut # "unset" =>
        /\ sniffOut \in {"true", "false"}
        /\ sniffOut = "true" <=>
              /\ ~sniffIn.err
              /\ Len(sniffIn.buf) >= HeaderLen
              /\ SubSeq(sniffIn.buf, 1, HeaderLen) = SqliteHeader

----------------------------------------------------------------------------
\* Properties of the label resolver

LoadedLabels == IF mainLocalization.v.labels.has THEN mainLocalization.v.labels.v ELSE {}

\* The longest run of digits a label ends with.
NumericSuffix(label) ==
    LET starts == {i \in 1..Len(label) : \A x \in i..Len(label) : IsDigit(label[x])}
    IN  IF starts = {} THEN <<>> ELSE SubSeq(label, Min(starts), Len(label))

\* The string table has an array at mid whose first element is not null.
FirstNonNull(mid) ==
    \E r \in enUsLocalization.v :
        r.messageId = mid /\ r.isArray /\ Len(r.elems) > 0 /\ r.elems[1] # Null

\* ... whose first element is a non-empty string.
FirstNonEmpty(mid) ==
    \E r \in enUsLocalization.v :
        /\ r.messageId = mid /\ r.isArray /\ Len(r.elems) > 0
        /\ r.elems[1].t = "str" /\ r.elems[1].s # ""

FirstOf(mid) == (CHOOSE r \in enUsLocalization.v : r.messageId = mid).elems[1].s

LabelFileOf(k) ==
    CASE k = "systems"        -> "system_labels.json"
      [] k = "constellations" -> "constellation_labels.json"
      [] k = "regions"        -> "region_labels.json"

\* C3: an ID is in a kind's label map only if it is in the kind's ID set,
\* some localization-index entry has the kind's FullPath and a label whose
\* numeric suffix equals the ID, and the string table has a non-null first
\* element at that entry's messageId.
C3_OnlyIfAllLinksResolve ==
    \A k \in Kinds : \A p \in labelMaps[k] :
        /\ p[1] \in allIds[k]
        /\ \E e \in LoadedLabels :
              /\ e.FullPath = FullPathOf(k)
              /\ NumericSuffix(e.label) # <<>>
              /\ ParseInt(NumericSuffix(e.label)) = p[1]
              /\ FirstNonNull(ParseInt(e.messageId))

\* C4 as stated: every recorded ID -> messageId whose string-table entry has
\* a non-null first element is in the kind's label map and in its JSON
\* files with that first element.
C4_CompleteForNonNull ==
    lpc = "done" =>
        \A k \in Kinds : \A p \in idToMessageId[k] :
            FirstNonNull(p[2]) =>
                /\ <<p[1], FirstOf(p[2])>> \in labelMaps[k]
                /\ <<p[1], FirstOf(p[2])>> \in outFiles[LabelFileOf(k)]
                /\ <<p[1], FirstOf(p[2])>> \in outFiles["stellar_labels.json"][k]

\* C4 as amended: every recorded ID -> messageId whose string-table entry
\* has a non-null, non-empty first element is in the kind's label map and in
\* its JSON files with that first element.
C4_CompleteForNonEmpty ==
    lpc = "done" =>
        \A k \in Kinds : \A p \in idToMessageId[k] :
            FirstNonEmpty(p[2]) =>
                /\ <<p[1], FirstOf(p[2])>> \in labelMaps[k]
                /\ <<p[1], FirstOf(p[2])>> \in outFiles[LabelFileOf(k)]
                /\ <<p[1], FirstOf(p[2])>> \in outFiles["stellar_labels.json"][k]

C4_Witness ==
    /\ lpc = "done"
    /\ idToMessageId["systems"] = {<<1, 1>>}
    /\ outFiles["system_labels.json"] = {<<1, "Jita">>}
    /\ idToMessageId["regions"] = {<<1, 2>>}
    /\ outFiles["stellar_labels.json"]["regions"] = {<<1, "Amarr">>}

\* C9: when one of the three catalogs is missing or does not parse, the run
\* has exited with code 1 at that load: no later catalog is loaded, no pass
\* has run and no output file is written; the passes run only with all three
\* catalogs loaded.
C9_LoadFailureAborts ==
    LET states == <<starMapCache.state, mainLocalization.state, enUsLocalization.state>>
        failed == \E i \in 1..3 : states[i] = "failed"
    IN  /\ failed =>
              /\ lpc = "exit" /\ exitCode = <<1>>
              /\ \A i \in 1..3 : states[i] = "failed" =>
                    \A j \in (i + 1)..3 : states[j] = "unloaded"
              /\ allIds = EmptyMaps /\ idToMessageId = EmptyMaps /\ labelMaps = EmptyMaps
              /\ DOMAIN outFiles = {}
        /\ lpc \in {"discover", "index", "resolve", "write", "done"} =>
              \A i \in 1..3 : states[i] = "ok"

C9_Witness ==
    /\ lpc = "exit"
    /\ starMapCache.state = "ok" /\ starMapCache.v # EmptyCache
    /\ mainLocalization.state = "failed"
    /\ enUsLocalization.state = "unloaded"

\* The label is the kind's prefix followed by digits that parse to id.
PrefixThenDigits(label, k, id) ==
    /\ Len(label) >= 2
    /\ label[1] = PrefixOf(k)
    /\ \A x \in 2..Len(label) : IsDigit(label[x])
    /\ ParseInt(SubSeq(label, 2, Len(label))) = id

\* C10: once the indexing pass has run, kind K's index holds ID -> messageId
\* exactly for the entries whose FullPath is K's tag, whose label is K's
\* prefix followed by a numeric suffix parsing to ID, and whose ID is in K's
\* ID set; every other entry is dropped.
C10_IndexedExactlyWhenWellFormed ==
    lpc \in {"resolve", "write", "done"} =>
        \A k \in Kinds :
            LET good(e, id) == /\ e.FullPath = FullPathOf(k)
                               /\ PrefixThenDigits(e.label, k, id)
                               /\ id \in allIds[k]
            IN  /\ \A p \in idToMessageId[k] :
                      \E e \in LoadedLabels : good(e, p[1]) /\ ParseInt(e.messageId) = p[2]
                /\ \A e \in LoadedLabels : \A id \in allIds[k] :
                      good(e, id) => \E p \in idToMessageId[k] : p[1] = id

\* Every place of the star-map catalog that holds an ID, as <<kind, ID>>.
Observations(c) ==
    LET regions == IF c.regions.has THEN c.regions.v ELSE {}
        consts  == IF c.constellations.has THEN c.constellations.v ELSE {}
        systems == IF c.solarSystems.has THEN c.solarSystems.v ELSE {}
        listed(l) == IF l.has THEN {l.v[i] : i \in DOMAIN l.v} ELSE {}
    IN  {<<"regions", ParseInt(r.key)>> : r \in regions}
        \cup {<<"constellations", ParseInt(r.key)>> : r \in consts}
        \cup UNION {{<<"constellations", x>> : x \in listed(r.constellationIDs)} : r \in regions}
        \cup UNION {{<<"systems", x>> : x \in listed(r.solarSystemIDs)} : r \in regions}
        \cup UNION {{<<"systems", x>> : x \in listed(r.solarSystemIDs)} : r \in consts}
        \cup {<<"systems", ParseInt(key)>> : key \in systems}

\* C11: after ID discovery each of the three ID sets is exactly the set of
\* IDs observed at the places of its kind in the star-map catalog (region
\* keys; constellation keys and every region's constellation list; every
\* region's and constellation's solar-system list and the top-level
\* solar-system keys), and holds no ID seen only at another kind's place.
C11_IdSetsAreTheUnion ==
    lpc = "index" =>
        \A k \in Kinds :
            allIds[k] = {o[2] : o \in {p \in Observations(starMapCache.v) : p[1] = k}}

C11_Witness ==
    /\ lpc = "index"
    /\ starMapCache.v.regions =
          Some({Region(1, NoList, Some(<<1, MaxId>>)),
                Region(MaxId, Some(<<MaxId>>), Some(<<1>>))})
    /\ starMapCache.v.constellations = Some({Constellation(1, Some(<<1, 1>>))})
    /\ starMapCache.v.solarSystems = NoMap
    /\ allIds["regions"] = {1, MaxId}
    /\ allIds["constellations"] = {1, MaxId}
    /\ allIds["systems"] = {1, MaxId}

----------------------------------------------------------------------------
\* The scenario line  res:|Foo.static,ccp_resources/Foo|

ScenarioLine ==
    <<"res:", "|", "Foo", ".", "static", ",", "ccp_resources", "/", "Foo", "|">>

ScenarioTasks == {i \in DOMAIN tasks : lines[tasks[i].line] = ScenarioLine}

\* The source read gave at least 16 bytes, the first 16 the signature.
StartsWithSignature(in) ==
    ~in.err /\ Len(in.buf) >= HeaderLen /\ SubSeq(in.buf, 1, HeaderLen) = SqliteHeader

\* t is a static handler; if the source it sniffed started with the
\* signature it goes on to the sqlite copy and, once returned, has produced
\* exactly static/{name}.static and sqlite/{name}.sqlite.
ProducesBoth(t, name) ==
    /\ t.routine = "processStaticFile"
    /\ (t.isValid # "unset" /\ StartsWithSignature(t.sourceRead)) =>
          /\ t.isValid = "true"
          /\ t.pc = "done" =>
                t.writes = {[dir |-> "static", sub |-> <<>>, name |-> name \o <<".", "static">>],
                            [dir |-> "sqlite", sub |-> <<>>, name |-> name \o <<".", "sqlite">>]}

\* C12 as stated: the scenario line is parsed into filename Foo, filetype
\* static and sourceRelativePath ccp_resources/Foo, and with a source that
\* starts with the signature its handler produces static/Foo.static and
\* sqlite/Foo.sqlite.
C12_ScenarioParsedAsFoo ==
    \A i \in ScenarioTasks :
        /\ tasks[i].m.filename = <<"Foo">>
        /\ tasks[i].m.filetype = <<"static">>
        /\ tasks[i].m.sourceRelativePath = <<"ccp_resources", "/", "Foo">>
        /\ ProducesBoth(tasks[i], <<"Foo">>)

\* C12 as amended: the scenario line is parsed into an empty respath,
\* filename res:|Foo, filetype static and sourceRelativePath
\* ccp_resources/Foo| (a line read starts exactly one handler, with these
\* groups), and with a source that starts with the signature its handler,
\* once returned, has produced static/res:|Foo.static and
\* sqlite/res:|Foo.sqlite.
C12_ScenarioParsedWhole ==
    /\ \A n \in 1..Len(lines) :
          lines[n] = ScenarioLine =>
             \E i \in ScenarioTasks : tasks[i].line = n
    /\ \A i \in ScenarioTasks :
          /\ tasks[i].m.respath = <<>>
          /\ tasks[i].m.filename = <<"res:", "|", "Foo">>
          /\ tasks[i].m.filetype = <<"static">>
          /\ tasks[i].m.sourceRelativePath = <<"ccp_resources", "/", "Foo", "|">>
          /\ ProducesBoth(tasks[i], <<"res:", "|", "Foo">>)

C12_Witness ==
    \E i \in ScenarioTasks :
        /\ tasks[i].pc = "done"
        /\ StartsWithSignature(tasks[i].sourceRead)
        /\ Cardinality(tasks[i].writes) = 2

----------------------------------------------------------------------------
\* Concurrency of the handlers

\* The destination a handler's pending copyFile or writeFile is writing.
PendingDest(t) ==
    IF t.pc = "copy" THEN {FirstDest(t.m)}
    ELSE IF t.pc = "copySqlite" THEN {SqliteDest(t.m.filename)}
    ELSE IF t.pc = "writeJson" THEN {JsonDest(t.m.filename)}
    ELSE {}

\* C13: two handlers started for distinct manifest entries never write the
\* same destination path, neither while both are in flight nor one after
\* the other: the path an entry is written to is that entry's alone.
C13_DestinationsUnique ==
    \A i \in DOMAIN tasks : \A j \in DOMAIN tasks :
        (i # j /\ lines[tasks[i].line] # lines[tasks[j].line]) =>
            (PendingDest(tasks[i]) \cup tasks[i].writes)
               \cap (PendingDest(tasks[j]) \cup tasks[j].writes) = {}

\* The handlers with a copy, a sniff, a read or a write still pending.
InFlight ==
    {i \in DOMAIN tasks :
        tasks[i].pc \in {"copy", "sniff", "copySqlite", "read", "writeJson"}}

\* C14: the summary is emitted only when every handler started by an
\* earlier line has finished: in no state is the summary out while a copy
\* or a decode is still in flight.
C14_SummaryAfterAllFinished ==
    summary # <<>> => InFlight = {}

\* C15: the handlers run behind a gate of a fixed size N, whatever the
\* manifest: a manifest longer than N never has more than N handlers in
\* flight.  Checked for the N one below the longest manifest of the model.
C15_BoundedInFlight ==
    Cardinality(InFlight) <= MaxLines - 1

====
